---------------------------- MODULE Spec2Model ----------------------------
(***************************************************************************)
(* Model of the service workers of the native-pwa repository.              *)
(*                                                                         *)
(* Three worker scripts are modelled; exactly one of them is the           *)
(* registered script of a run (variable script):                           *)
(*   "main"   src/unnamed/part_000 lines 1-468   (cache version v1.0.1)    *)
(*   "legacy" src/unnamed/part_000 lines 470-500 (john-doe-portfolio-v1)   *)
(*   "pages"  src/sw.js                          (cache version v1.0.2)    *)
(* part_000 declares const CACHE_NAME at line 2 and again at line 470; one *)
(* script cannot hold both declarations, so lines 470-500 are read as a    *)
(* script of their own.                                                    *)
(*                                                                         *)
(* Strings the code inspects by prefix, suffix or substring are sequences  *)
(* of tokens, so that startsWith / endsWith / includes are computed:       *)
(*   a scheme is a sequence of characters, a pathname a sequence of lexical*)
(*   tokens ("/", a name, an extension such as ".css"), an Accept header a *)
(*   sequence of media ranges.                                             *)
(***************************************************************************)
EXTENDS Integers, Sequences, FiniteSets, TLC

VARIABLES script, phase, cacheNames, stores, lastWriter, tasks

vars == <<script, phase, cacheNames, stores, lastWriter, tasks>>

-----------------------------------------------------------------------------
(* Bounds of the model *)

\* number of fetch events dispatched to the worker in one run
MaxTasks == 2
\* number of distinct response bodies the network can serve
MaxBody == 2

Slots == 1..MaxTasks
Bodies == 1..MaxBody

-----------------------------------------------------------------------------
(* String helpers *)

StartsWith(s, prefix) ==
  /\ Len(s) >= Len(prefix)
  /\ SubSeq(s, 1, Len(prefix)) = prefix

EndsWith(s, suffix) ==
  /\ Len(s) >= Len(suffix)
  /\ SubSeq(s, Len(s) - Len(suffix) + 1, Len(s)) = suffix

Includes(s, item) == \E i \in 1..Len(s) : s[i] = item

-----------------------------------------------------------------------------
(* Program constants *)

CACHE_NAME == "portfolio-v1.0.1"
STATIC_CACHE == "static-v1.0.1"
DYNAMIC_CACHE == "dynamic-v1.0.1"

LEGACY_CACHE_NAME == "john-doe-portfolio-v1"

PAGES_CACHE_NAME == "portfolio-v1.0.2"
PAGES_STATIC_CACHE == "static-v1.0.2"
PAGES_DYNAMIC_CACHE == "dynamic-v1.0.2"
BASE_URL == <<"/", "native-pwa", "/">>

StoreNames ==
  {CACHE_NAME, STATIC_CACHE, DYNAMIC_CACHE, LEGACY_CACHE_NAME,
   PAGES_CACHE_NAME, PAGES_STATIC_CACHE, PAGES_DYNAMIC_CACHE}

HTTP == <<"h", "t", "t", "p">>
HTTPS == <<"h", "t", "t", "p", "s">>
CHROME_EXTENSION ==
  <<"c", "h", "r", "o", "m", "e", "-", "e", "x", "t", "e", "n", "s", "i", "o", "n">>

\* the origin the worker is served from (self.location)
SELF_HOSTNAME == "debasish-sai.github.io"
SelfOrigin == <<HTTPS, SELF_HOSTNAME>>

-----------------------------------------------------------------------------
(* Requests *)

Methods == {"GET", "POST"}
Schemes == {HTTP, HTTPS, CHROME_EXTENSION}
Hostnames ==
  {SELF_HOSTNAME, "fonts.googleapis.com", "fonts.gstatic.com", "cdnjs.cloudflare.com"}
Pathnames ==
  { <<"/">>,
    <<"/", "index", ".html">>,
    <<"/", "manifest", ".json">>,
    <<"/", "app", ".css">>,
    <<"/", "app", ".js">>,
    <<"/", "logo", ".png">>,
    <<"/", "photo", ".jpg">>,
    <<"/", "icon", ".svg">>,
    <<"/", "favicon", ".ico">>,
    <<"/", "inter", ".woff">>,
    <<"/", "inter", ".woff2">>,
    <<"/", "inter", ".ttf">>,
    <<"/", "inter", ".otf">>,
    <<"/", "css2">>,
    <<"/", "about">>,
    <<"/", "api", "/", "data">>,
    <<"/", "api", "/", "theme", ".css">>,
    <<"/", "share-target">>,
    <<"/", "native-pwa", "/">>,
    <<"/", "native-pwa", "/", "index", ".html">>,
    <<"/", "native-pwa", "/", "about">> }
Destinations == {"document", "style", ""}
\* the Accept header: absent (headers.get returns null) or a list of ranges
NoHeader == <<"null">>
Accepts == {NoHeader, <<"text/html", "application/xhtml+xml">>, <<"*/*">>}

Req(m, s, h, p, d, a) ==
  [method |-> m, scheme |-> s, hostname |-> h, pathname |-> p,
   destination |-> d, accept |-> a]

AllRequests ==
  { Req(m, s, h, p, d, a) :
      m \in Methods, s \in Schemes, h \in Hostnames, p \in Pathnames,
      d \in Destinations, a \in Accepts }

\* request.url as the string the code tests with startsWith
RequestUrl(request) ==
  request.scheme \o <<":", "//", request.hostname>> \o request.pathname

\* url.protocol
Protocol(request) == request.scheme \o <<":">>

\* url.origin
Origin(request) == <<request.scheme, request.hostname>>

\* The identity under which the Cache API stores and matches a request: its
\* URL.  Method, destination and headers are not part of the key.
Key(request) == <<request.scheme, request.hostname, request.pathname>>

-----------------------------------------------------------------------------
(* Responses *)

Statuses == {200, 404}

Absent == [src |-> "absent"]
Pending == [src |-> "pending"]
\* respondWith settled with undefined: the client sees a network error
Undefined == [src |-> "undefined"]
NetworkError == [src |-> "error", error |-> "network"]
Rejected(error) == [src |-> "rejected", error |-> error]
PassThrough == [src |-> "passthrough"]

NetResponse(status, body) == [src |-> "network", status |-> status, body |-> body]

NetResponses == { NetResponse(s, b) : s \in Statuses, b \in Bodies }

\* what fetch(request) can settle with
NetworkOutcomes == {NetworkError} \cup NetResponses

\* new Response(html, {headers}) without a status: the status defaults to 200
createOfflinePage ==
  [src |-> "createOfflinePage", status |-> 200,
   body |-> <<"<h1>", "You're Offline", "</h1>">>]

\* new Response("Offline", {status: 503, statusText: "Service Unavailable"})
ServiceUnavailable ==
  [src |-> "synthesized", status |-> 503, body |-> <<"Offline">>]

\* Response.redirect(location, 303)
Redirect(location) == [src |-> "redirect", status |-> 303, location |-> location]

-----------------------------------------------------------------------------
(* Request classification, part_000 lines 194-226 *)

isStaticAsset(request) ==
  \/ request.pathname = <<"/">>
  \/ request.pathname = <<"/", "index", ".html">>
  \/ request.pathname = <<"/", "manifest", ".json">>
  \/ EndsWith(request.pathname, <<".css">>)
  \/ EndsWith(request.pathname, <<".js">>)
  \/ EndsWith(request.pathname, <<".png">>)
  \/ EndsWith(request.pathname, <<".jpg">>)
  \/ EndsWith(request.pathname, <<".svg">>)
  \/ EndsWith(request.pathname, <<".ico">>)

isFont(request) ==
  \/ request.hostname = "fonts.googleapis.com"
  \/ request.hostname = "fonts.gstatic.com"
  \/ EndsWith(request.pathname, <<".woff">>)
  \/ EndsWith(request.pathname, <<".woff2">>)
  \/ EndsWith(request.pathname, <<".ttf">>)
  \/ EndsWith(request.pathname, <<".otf">>)

isAPIRequest(request) ==
  \/ StartsWith(request.pathname, <<"/", "api", "/">>)
  \/ request.hostname # SELF_HOSTNAME

-----------------------------------------------------------------------------
(* Fetch listeners.  Each yields what the listener does with the event:    *)
(* whether it calls event.respondWith, with which handler and which store  *)
(* name.                                                                   *)

Decline == [responds |-> FALSE, handler |-> "none", cacheName |-> "none"]
Respond(handler, cacheName) ==
  [responds |-> TRUE, handler |-> handler, cacheName |-> cacheName]

\* the http(s) and chrome-extension guards of the main listener
SkipsNonHttp(request) ==
  \/ ~StartsWith(RequestUrl(request), HTTP)
  \/ Protocol(request) = CHROME_EXTENSION \o <<":">>

\* SelectStrategy with the font rule tried before the static-asset rule
SelectStrategy_FontFirst(request) ==
  IF isFont(request)
    THEN Respond("cacheFirstStrategy", DYNAMIC_CACHE)
  ELSE IF isStaticAsset(request)
    THEN Respond("cacheFirstStrategy", STATIC_CACHE)
  ELSE IF isAPIRequest(request)
    THEN Respond("networkFirstStrategy", DYNAMIC_CACHE)
  ELSE Respond("staleWhileRevalidateStrategy", DYNAMIC_CACHE)

\* SelectStrategy with the API rule tried before the static-asset rule
SelectStrategy_ApiFirst(request) ==
  IF isAPIRequest(request)
    THEN Respond("networkFirstStrategy", DYNAMIC_CACHE)
  ELSE IF isStaticAsset(request)
    THEN Respond("cacheFirstStrategy", STATIC_CACHE)
  ELSE IF isFont(request)
    THEN Respond("cacheFirstStrategy", DYNAMIC_CACHE)
  ELSE Respond("staleWhileRevalidateStrategy", DYNAMIC_CACHE)

\* SelectStrategy with fonts written to the static store
SelectStrategy_FontsInStatic(request) ==
  IF isStaticAsset(request)
    THEN Respond("cacheFirstStrategy", STATIC_CACHE)
  ELSE IF isFont(request)
    THEN Respond("cacheFirstStrategy", STATIC_CACHE)
  ELSE IF isAPIRequest(request)
    THEN Respond("networkFirstStrategy", DYNAMIC_CACHE)
  ELSE Respond("staleWhileRevalidateStrategy", DYNAMIC_CACHE)

\* the if / else-if chain that picks the strategy
SelectStrategy(request) ==
  IF isStaticAsset(request)
    THEN Respond("cacheFirstStrategy", STATIC_CACHE)
  ELSE IF isFont(request)
    THEN Respond("cacheFirstStrategy", DYNAMIC_CACHE)
  ELSE IF isAPIRequest(request)
    THEN Respond("networkFirstStrategy", DYNAMIC_CACHE)
  ELSE Respond("staleWhileRevalidateStrategy", DYNAMIC_CACHE)

\* FetchListener without its method guard
FetchListener_AnyMethod(request) ==
  IF SkipsNonHttp(request) THEN Decline
  ELSE SelectStrategy(request)

FetchListener(request) ==
  IF request.method # "GET" THEN Decline
  ELSE IF SkipsNonHttp(request) THEN Decline
  ELSE SelectStrategy(request)

ShareTargetListener(request) ==
  IF request.pathname = <<"/", "share-target">> /\ request.method = "POST"
    THEN Respond("handleShareTarget", "none")
    ELSE Decline

LegacyFetchListener(request) == Respond("legacyFetch", "none")

PagesFetchListener(request) ==
  IF request.method # "GET" THEN Decline
  ELSE IF ~StartsWith(RequestUrl(request), HTTP) THEN Decline
  ELSE IF \/ StartsWith(request.pathname, BASE_URL)
          \/ Origin(request) = SelfOrigin
    THEN Respond("pagesFetch", PAGES_DYNAMIC_CACHE)
  ELSE Decline

\* The listeners a script registers, in registration order.
Listeners(s) ==
  CASE s = "main" -> <<"FetchListener", "ShareTargetListener">>
    [] s = "legacy" -> <<"LegacyFetchListener">>
    [] s = "pages" -> <<"PagesFetchListener">>

RunListener(name, request) ==
  CASE name = "FetchListener" -> FetchListener(request)
    [] name = "ShareTargetListener" -> ShareTargetListener(request)
    [] name = "LegacyFetchListener" -> LegacyFetchListener(request)
    [] name = "PagesFetchListener" -> PagesFetchListener(request)

\* The listeners of script s that call respondWith for this request.
Responders(s, request) ==
  { i \in 1..Len(Listeners(s)) : RunListener(Listeners(s)[i], request).responds }

-----------------------------------------------------------------------------
(* Precache lists *)

Url(scheme, hostname, pathname) == <<scheme, hostname, pathname>>

FontStylesheet == Url(HTTPS, "fonts.googleapis.com", <<"/", "css2">>)

\* part_000 lines 7-12; relative URLs resolve against the worker's origin
STATIC_FILES ==
  { Url(HTTPS, SELF_HOSTNAME, <<"/">>),
    Url(HTTPS, SELF_HOSTNAME, <<"/", "index", ".html">>),
    Url(HTTPS, SELF_HOSTNAME, <<"/", "manifest", ".json">>),
    FontStylesheet }

\* part_000 lines 471-478
urlsToCache ==
  { Url(HTTPS, SELF_HOSTNAME, <<"/">>),
    Url(HTTPS, SELF_HOSTNAME, <<"/", "index", ".html">>),
    Url(HTTPS, "cdnjs.cloudflare.com", <<"/", "tailwind.min", ".css">>),
    Url(HTTPS, "placehold.co", <<"/", "150x150">>),
    Url(HTTPS, "placehold.co", <<"/", "192x192">>),
    Url(HTTPS, "placehold.co", <<"/", "512x512">>) }

\* sw.js lines 10-15
PAGES_STATIC_FILES ==
  { Url(HTTPS, SELF_HOSTNAME, BASE_URL),
    Url(HTTPS, SELF_HOSTNAME, BASE_URL \o <<"index", ".html">>),
    Url(HTTPS, SELF_HOSTNAME, BASE_URL \o <<"manifest", ".json">>),
    FontStylesheet }

-----------------------------------------------------------------------------
(* Cache Storage: cacheNames lists the existing stores in creation order,  *)
(* stores[name] maps the keys a store holds to their responses.            *)

EmptyStore == [k \in {} |-> Absent]

Lookup(store, key) == IF key \in DOMAIN store THEN store[key] ELSE Absent

StorePut(store, key, response) ==
  [k \in DOMAIN store \cup {key} |-> IF k = key THEN response ELSE store[k]]

\* cache.add / cache.addAll of the keys, each stored with the fetched body
StoreAddAll(store, keys, body) ==
  [k \in DOMAIN store \cup keys |->
     IF k \in keys THEN NetResponse(200, body) ELSE store[k]]

Exists(name) == \E i \in 1..Len(cacheNames) : cacheNames[i] = name

\* caches.open(name): the store is created when it does not exist
Opened(names, name) ==
  IF \E i \in 1..Len(names) : names[i] = name THEN names ELSE Append(names, name)

\* caches.match(request): the first store, in creation order, that holds the
\* request's URL; only GET requests match.
CachesMatchIn(names, contents, request) ==
  LET hits == { i \in 1..Len(names) : Key(request) \in DOMAIN contents[names[i]] }
      first == CHOOSE i \in hits : \A j \in hits : i <= j
  IN  IF request.method # "GET" \/ hits = {}
        THEN Absent
        ELSE contents[names[first]][Key(request)]

CachesMatch(request) == CachesMatchIn(cacheNames, stores, request)

\* the entry of the store of that name alone
NamedEntry(name, request) ==
  IF name \in StoreNames THEN Lookup(stores[name], Key(request)) ELSE Absent

-----------------------------------------------------------------------------
(* Lifecycle: install and activate *)

Scripts == {"main", "legacy", "pages"}

\* The stores an earlier generation of the worker may have left behind:
\* for each script, the possible lists of existing store names.
LeftBehind(s) ==
  CASE s = "main" -> {<<>>, <<LEGACY_CACHE_NAME>>}
    [] s = "legacy" -> {<<>>}
    [] s = "pages" -> {<<>>, <<STATIC_CACHE, DYNAMIC_CACHE>>}

Precached(name) ==
  CASE name = LEGACY_CACHE_NAME -> urlsToCache
    [] name = STATIC_CACHE -> STATIC_FILES
    [] name = PAGES_STATIC_CACHE -> PAGES_STATIC_FILES
    [] OTHER -> {}

NoWriter == [k \in {} |-> 0]
WrittenBy(writers, keys, w) ==
  [k \in DOMAIN writers \cup keys |-> IF k \in keys THEN w ELSE writers[k]]

NoRequest == Req("", <<>>, "", <<>>, "", <<>>)

IdleTask ==
  [pc |-> "idle", request |-> NoRequest, handler |-> "none",
   cacheName |-> "none", cachedResponse |-> Absent, networkResponse |-> Absent,
   result |-> Pending, error |-> "none", fetches |-> 0, put |-> "none",
   seen |-> Absent, atStart |-> Absent]

Init ==
  /\ script \in Scripts
  /\ phase = "installing"
  /\ cacheNames \in LeftBehind(script)
  /\ \E body \in Bodies :
       stores = [n \in StoreNames |->
                   IF \E i \in 1..Len(cacheNames) : cacheNames[i] = n
                     THEN StoreAddAll(EmptyStore, Precached(n), body)
                     ELSE EmptyStore]
  /\ lastWriter = [n \in StoreNames |->
                     WrittenBy(NoWriter, DOMAIN stores[n], 0)]
  /\ tasks = [t \in Slots |-> IdleTask]

\* part_000 lines 20-49: both stores are opened, every STATIC_FILES entry is
\* added on its own and a failed add is swallowed; a failed open fails the
\* installation.
Install ==
  /\ script = "main"
  /\ phase = "installing"
  /\ \E staticOpen \in BOOLEAN, dynamicOpen \in BOOLEAN,
        added \in SUBSET STATIC_FILES, body \in Bodies :
       LET withStatic == IF staticOpen THEN Opened(cacheNames, STATIC_CACHE)
                                       ELSE cacheNames
           names == IF dynamicOpen THEN Opened(withStatic, DYNAMIC_CACHE)
                                   ELSE withStatic
           put == IF staticOpen THEN added ELSE {}
       IN  /\ cacheNames' = names
           /\ stores' = [stores EXCEPT
                ![STATIC_CACHE] = StoreAddAll(@, put, body)]
           /\ lastWriter' = [lastWriter EXCEPT
                ![STATIC_CACHE] = WrittenBy(@, put, 0)]
           /\ phase' = IF staticOpen /\ dynamicOpen THEN "installed"
                                                   ELSE "redundant"
  /\ UNCHANGED <<script, tasks>>

\* cache.addAll is all-or-nothing: open the store, then add every key or none
InstallAddAll(name, files, next) ==
  \E outcome \in {"openFailed", "addAllFailed", "ok"}, body \in Bodies :
    LET put == IF outcome = "ok" THEN files ELSE {}
    IN  /\ cacheNames' = IF outcome = "openFailed" THEN cacheNames
                                                   ELSE Opened(cacheNames, name)
        /\ stores' = [stores EXCEPT ![name] = StoreAddAll(@, put, body)]
        /\ lastWriter' = [lastWriter EXCEPT ![name] = WrittenBy(@, put, 0)]
        /\ phase' = IF outcome = "ok" THEN next ELSE "redundant"

\* part_000 lines 480-488; the script has no activate listener, the worker
\* is active once installed
LegacyInstall ==
  /\ script = "legacy"
  /\ phase = "installing"
  /\ InstallAddAll(LEGACY_CACHE_NAME, urlsToCache, "activated")
  /\ UNCHANGED <<script, tasks>>

\* sw.js lines 18-33
PagesInstall ==
  /\ script = "pages"
  /\ phase = "installing"
  /\ InstallAddAll(PAGES_STATIC_CACHE, PAGES_STATIC_FILES, "installed")
  /\ UNCHANGED <<script, tasks>>

\* the names the activate listener of a script keeps
KeptNames(s) ==
  IF s = "pages"
    THEN {PAGES_STATIC_CACHE, PAGES_DYNAMIC_CACHE, PAGES_CACHE_NAME}
    ELSE {STATIC_CACHE, DYNAMIC_CACHE, CACHE_NAME}

\* DeleteOldCaches that deletes every store, the kept names included
DeleteOldCaches_Everything(keep) ==
  /\ cacheNames' = <<>>
  /\ stores' = [n \in StoreNames |-> EmptyStore]
  /\ lastWriter' = [n \in StoreNames |-> NoWriter]

\* caches.keys() then caches.delete of every name that is not kept
DeleteOldCaches(keep) ==
  LET Kept(name) == name \in keep
  IN  /\ cacheNames' = SelectSeq(cacheNames, Kept)
      /\ stores' = [n \in StoreNames |->
                      IF Exists(n) /\ ~Kept(n) THEN EmptyStore ELSE stores[n]]
      /\ lastWriter' = [n \in StoreNames |->
                      IF Exists(n) /\ ~Kept(n) THEN NoWriter ELSE lastWriter[n]]

\* the worker of the earlier generation is terminated when the new one is
\* activated: code that was still running (the revalidation of a request that
\* was already answered) stops; a put that was started stays in flight
Terminated(task) ==
  IF task.pc \in {"idle", "declined", "done"} THEN task
                                             ELSE [task EXCEPT !.pc = "done"]

\* part_000 lines 52-79 and sw.js lines 36-61.  skipWaiting (part_000 line
\* 43, sw.js line 27) lets the worker activate as soon as no event of the
\* earlier worker waits for its response.
Activate ==
  /\ script \in {"main", "pages"}
  /\ phase = "installed"
  /\ \A t \in Slots : tasks[t].pc = "idle" \/ tasks[t].result # Pending
  /\ DeleteOldCaches(KeptNames(script))
  /\ phase' = "activated"
  /\ tasks' = [t \in Slots |-> Terminated(tasks[t])]
  /\ UNCHANGED script

-----------------------------------------------------------------------------
(* Fetch events *)

\* The requests of the fetch events of the full specification
Requests ==
  { Req("GET", HTTPS, SELF_HOSTNAME, <<"/">>, "document", <<"text/html", "application/xhtml+xml">>),
    Req("GET", HTTPS, SELF_HOSTNAME, <<"/", "app", ".css">>, "style", <<"*/*">>),
    Req("GET", HTTPS, "fonts.googleapis.com", <<"/", "css2">>, "style", <<"*/*">>),
    Req("GET", HTTPS, "cdnjs.cloudflare.com", <<"/", "app", ".css">>, "style", <<"*/*">>),
    Req("GET", HTTPS, SELF_HOSTNAME, <<"/", "api", "/", "data">>, "", <<"*/*">>),
    Req("GET", HTTPS, SELF_HOSTNAME, <<"/", "about">>, "document", <<"text/html", "application/xhtml+xml">>),
    Req("GET", HTTPS, SELF_HOSTNAME, <<"/", "native-pwa", "/", "about">>, "", NoHeader),
    Req("GET", CHROME_EXTENSION, SELF_HOSTNAME, <<"/", "app", ".js">>, "", <<"*/*">>),
    Req("POST", HTTPS, SELF_HOSTNAME, <<"/", "share-target">>, "document", <<"text/html", "application/xhtml+xml">>),
    Req("POST", HTTPS, SELF_HOSTNAME, <<"/", "api", "/", "data">>, "", <<"*/*">>) }

\* where a handler's code starts, up to its first suspension
EntryPoint(handler) ==
  CASE handler = "cacheFirstStrategy" -> "cf_match"
    [] handler = "networkFirstStrategy" -> "nf_fetch"
    [] handler = "staleWhileRevalidateStrategy" -> "swr_match"
    [] handler = "handleShareTarget" -> "st_formData"
    [] handler = "legacyFetch" -> "lg_match"
    [] handler = "pagesFetch" -> "pg_match"

\* the task of an event: declined when no listener calls respondWith,
\* otherwise the handler passed to the first respondWith
Dispatch(s, request, atStart) ==
  LET responders == Responders(s, request)
      first == CHOOSE i \in responders : \A j \in responders : i <= j
      decision == RunListener(Listeners(s)[first], request)
  IN  IF responders = {}
        THEN [IdleTask EXCEPT !.pc = "declined", !.request = request,
                              !.result = PassThrough]
        ELSE [IdleTask EXCEPT
                !.pc = EntryPoint(decision.handler),
                !.request = request,
                !.handler = decision.handler,
                !.cacheName = decision.cacheName,
                !.fetches = IF decision.handler = "networkFirstStrategy"
                              THEN 1 ELSE 0,
                !.atStart = atStart]

\* the store a request's strategy would write to, were it handled
TargetStore(s, request) ==
  LET responders == Responders(s, request)
      first == CHOOSE i \in responders : \A j \in responders : i <= j
  IN  IF responders = {} THEN "none"
      ELSE RunListener(Listeners(s)[first], request).cacheName

\* the script whose stores a script finds left behind
Previous(s) ==
  CASE s = "main" -> "legacy"
    [] s = "pages" -> "main"
    [] OTHER -> "none"

\* the worker of the earlier generation is there when its stores are
HasPrevious ==
  \E names \in LeftBehind(script) :
    names # <<>> /\ \A i \in 1..Len(names) : Exists(names[i])

\* the worker that receives the fetch events: the new worker once it is
\* activated; while it installs and waits, the worker it will replace
ActiveWorker ==
  IF phase = "activated" THEN script
  ELSE IF phase \in {"installing", "installed"} /\ HasPrevious
    THEN Previous(script)
  ELSE "none"

FetchEvent(t, request) ==
  /\ ActiveWorker # "none"
  /\ tasks[t].pc = "idle"
  /\ \A u \in Slots : u < t => tasks[u].pc # "idle"
  /\ tasks' = [tasks EXCEPT ![t] =
       Dispatch(ActiveWorker, request,
                NamedEntry(TargetStore(ActiveWorker, request), request))]
  /\ UNCHANGED <<script, phase, cacheNames, stores, lastWriter>>

-----------------------------------------------------------------------------
(* cacheFirstStrategy, part_000 lines 118-147 *)

\* CacheFirstFallback that ignores the request's destination
CacheFirstFallback_Always503(request) == ServiceUnavailable

\* the catch block
CacheFirstFallback(request) ==
  IF request.destination = "document" THEN createOfflinePage
                                       ELSE ServiceUnavailable

\* CacheFirstMatched that goes to the network whatever the lookup found
CacheFirstMatched_IgnoresCache(task, cachedResponse, named) ==
  [task EXCEPT !.pc = "cf_fetch", !.seen = named, !.fetches = @ + 1]

\* CacheFirstMatched that looks at the entry of the named store alone
CacheFirstMatched_NamedStoreOnly(task, cachedResponse, named) ==
  IF named # Absent
    THEN [task EXCEPT !.pc = "done", !.cachedResponse = named,
                      !.seen = named, !.result = named]
    ELSE [task EXCEPT !.pc = "cf_fetch", !.seen = named, !.fetches = @ + 1]

\* await caches.match(request) has settled
CacheFirstMatched(task, cachedResponse, named) ==
  IF cachedResponse # Absent
    THEN [task EXCEPT !.pc = "done", !.cachedResponse = cachedResponse,
                      !.seen = named, !.result = cachedResponse]
    ELSE [task EXCEPT !.pc = "cf_fetch", !.seen = named, !.fetches = @ + 1]

\* CacheFirstFetched that writes a response of any status through
CacheFirstFetched_CachesAnyStatus(task, outcome) ==
  IF outcome = NetworkError
    THEN [task EXCEPT !.pc = "done", !.error = "network",
                      !.result = CacheFirstFallback(task.request)]
    ELSE [task EXCEPT !.pc = "cf_open", !.networkResponse = outcome]

\* await fetch(request) has settled
CacheFirstFetched(task, outcome) ==
  IF outcome = NetworkError
    THEN [task EXCEPT !.pc = "done", !.error = "network",
                      !.result = CacheFirstFallback(task.request)]
  ELSE IF outcome.status = 200
    THEN [task EXCEPT !.pc = "cf_open", !.networkResponse = outcome]
  ELSE [task EXCEPT !.pc = "done", !.networkResponse = outcome,
                    !.result = outcome]

\* await caches.open(cacheName) has settled; cache.put is not awaited
CacheFirstOpened(task, ok) ==
  IF ok
    THEN [task EXCEPT !.pc = "done", !.put = "pending",
                      !.result = task.networkResponse]
    ELSE [task EXCEPT !.pc = "done", !.error = "store",
                      !.result = CacheFirstFallback(task.request)]

CacheFirstMatch(t) ==
  /\ tasks[t].pc = "cf_match"
  /\ tasks' = [tasks EXCEPT ![t] =
       CacheFirstMatched(@, CachesMatch(@.request), NamedEntry(@.cacheName, @.request))]
  /\ UNCHANGED <<script, phase, cacheNames, stores, lastWriter>>

CacheFirstFetch(t) ==
  /\ tasks[t].pc = "cf_fetch"
  /\ \E outcome \in NetworkOutcomes :
       tasks' = [tasks EXCEPT ![t] = CacheFirstFetched(@, outcome)]
  /\ UNCHANGED <<script, phase, cacheNames, stores, lastWriter>>

CacheFirstOpen(t) ==
  /\ tasks[t].pc = "cf_open"
  /\ \E ok \in BOOLEAN :
       /\ tasks' = [tasks EXCEPT ![t] = CacheFirstOpened(@, ok)]
       /\ cacheNames' = IF ok THEN Opened(cacheNames, tasks[t].cacheName)
                              ELSE cacheNames
  /\ UNCHANGED <<script, phase, stores, lastWriter>>

\* a put that was started settles: the entry is written whole, or the put
\* fails and the store is as before; a put through the handle of a store
\* that was deleted meanwhile writes nothing a lookup can reach
PutApplied(contents, task) ==
  [contents EXCEPT ![task.cacheName] =
     StorePut(@, Key(task.request), task.networkResponse)]

CachePut(t) ==
  /\ tasks[t].put = "pending"
  /\ \E ok \in BOOLEAN :
       IF ~Exists(tasks[t].cacheName)
         THEN /\ tasks' = [tasks EXCEPT ![t].put = "orphaned"]
              /\ UNCHANGED <<stores, lastWriter>>
       ELSE IF ok
         THEN /\ stores' = PutApplied(stores, tasks[t])
              /\ lastWriter' = [lastWriter EXCEPT ![tasks[t].cacheName] =
                                  WrittenBy(@, {Key(tasks[t].request)}, t)]
              /\ tasks' = [tasks EXCEPT ![t].put = "applied"]
         ELSE /\ tasks' = [tasks EXCEPT ![t].put = "failed"]
              /\ UNCHANGED <<stores, lastWriter>>
  /\ UNCHANGED <<script, phase, cacheNames>>

-----------------------------------------------------------------------------
(* networkFirstStrategy, part_000 lines 150-170 *)

\* NetworkFirstFetched that treats a status other than 200 as a failure
NetworkFirstFetched_Non200FallsBack(task, outcome) ==
  IF outcome = NetworkError
    THEN [task EXCEPT !.pc = "nf_match", !.error = "network"]
  ELSE IF outcome.status = 200
    THEN [task EXCEPT !.pc = "nf_open", !.networkResponse = outcome]
  ELSE [task EXCEPT !.pc = "nf_match", !.networkResponse = outcome,
                    !.error = "network"]

\* await fetch(request) has settled
NetworkFirstFetched(task, outcome) ==
  IF outcome = NetworkError
    THEN [task EXCEPT !.pc = "nf_match", !.error = "network"]
  ELSE IF outcome.status = 200
    THEN [task EXCEPT !.pc = "nf_open", !.networkResponse = outcome]
  ELSE [task EXCEPT !.pc = "done", !.networkResponse = outcome,
                    !.result = outcome]

\* await caches.open(cacheName) has settled; a rejection enters the catch
NetworkFirstOpened(task, ok) ==
  IF ok
    THEN [task EXCEPT !.pc = "done", !.put = "pending",
                      !.result = task.networkResponse]
    ELSE [task EXCEPT !.pc = "nf_match", !.error = "store"]

\* NetworkFirstMatched that rethrows without using the cached copy
NetworkFirstMatched_NoFallback(task, cachedResponse, named) ==
  [task EXCEPT !.pc = "done", !.cachedResponse = cachedResponse,
               !.seen = named, !.result = Rejected(task.error)]

\* NetworkFirstMatched that answers a miss with the offline page
NetworkFirstMatched_OfflineOnMiss(task, cachedResponse, named) ==
  [task EXCEPT !.pc = "done", !.cachedResponse = cachedResponse,
               !.seen = named,
               !.result = IF cachedResponse # Absent THEN cachedResponse
                                                     ELSE createOfflinePage]

\* the catch block: await caches.match(request) has settled
NetworkFirstMatched(task, cachedResponse, named) ==
  IF cachedResponse # Absent
    THEN [task EXCEPT !.pc = "done", !.cachedResponse = cachedResponse,
                      !.seen = named, !.result = cachedResponse]
    ELSE [task EXCEPT !.pc = "done", !.seen = named,
                      !.result = Rejected(task.error)]

NetworkFirstFetch(t) ==
  /\ tasks[t].pc = "nf_fetch"
  /\ \E outcome \in NetworkOutcomes :
       tasks' = [tasks EXCEPT ![t] = NetworkFirstFetched(@, outcome)]
  /\ UNCHANGED <<script, phase, cacheNames, stores, lastWriter>>

NetworkFirstOpen(t) ==
  /\ tasks[t].pc = "nf_open"
  /\ \E ok \in BOOLEAN :
       /\ tasks' = [tasks EXCEPT ![t] = NetworkFirstOpened(@, ok)]
       /\ cacheNames' = IF ok THEN Opened(cacheNames, tasks[t].cacheName)
                              ELSE cacheNames
  /\ UNCHANGED <<script, phase, stores, lastWriter>>

NetworkFirstMatch(t) ==
  /\ tasks[t].pc = "nf_match"
  /\ tasks' = [tasks EXCEPT ![t] =
       NetworkFirstMatched(@, CachesMatch(@.request), NamedEntry(@.cacheName, @.request))]
  /\ UNCHANGED <<script, phase, cacheNames, stores, lastWriter>>

-----------------------------------------------------------------------------
(* staleWhileRevalidateStrategy, part_000 lines 173-191 *)

\* the value the strategy's promise settles with, once: a later settlement
\* of fetchPromise does not change what the caller was given
Settle(task, value) == IF task.result = Pending THEN value ELSE task.result

\* StaleWhileRevalidateMatched that always returns fetchPromise
StaleWhileRevalidateMatched_AwaitsNetwork(task, cachedResponse, named) ==
  [task EXCEPT !.pc = "swr_fetch", !.cachedResponse = cachedResponse,
               !.seen = named, !.fetches = @ + 1]

\* await caches.match(request) has settled: the fetch is started and the
\* function returns cachedResponse || fetchPromise
StaleWhileRevalidateMatched(task, cachedResponse, named) ==
  [task EXCEPT !.pc = "swr_fetch", !.cachedResponse = cachedResponse,
               !.seen = named, !.fetches = @ + 1,
               !.result = IF cachedResponse # Absent THEN cachedResponse
                                                     ELSE Pending]

\* StaleWhileRevalidateFetched whose catch picks the fallback by destination
StaleWhileRevalidateFetched_ByDestination(task, outcome) ==
  IF outcome = NetworkError
    THEN [task EXCEPT !.pc = "done", !.error = "network",
            !.result = Settle(task, IF task.cachedResponse # Absent
                                      THEN task.cachedResponse
                                      ELSE CacheFirstFallback(task.request))]
  ELSE IF outcome.status = 200
    THEN [task EXCEPT !.pc = "swr_open", !.networkResponse = outcome,
                      !.result = Settle(task, outcome)]
  ELSE [task EXCEPT !.pc = "done", !.networkResponse = outcome,
                    !.result = Settle(task, outcome)]

\* fetch(request) has settled: the then / catch callbacks of fetchPromise
StaleWhileRevalidateFetched(task, outcome) ==
  IF outcome = NetworkError
    THEN [task EXCEPT !.pc = "done", !.error = "network",
            !.result = Settle(task, IF task.cachedResponse # Absent
                                      THEN task.cachedResponse
                                      ELSE createOfflinePage)]
  ELSE IF outcome.status = 200
    THEN [task EXCEPT !.pc = "swr_open", !.networkResponse = outcome,
                      !.result = Settle(task, outcome)]
  ELSE [task EXCEPT !.pc = "done", !.networkResponse = outcome,
                    !.result = Settle(task, outcome)]

\* caches.open(cacheName).then(put), detached: when the open rejects, or
\* clone() throws because the body was already handed to the client, no put
\* is started and nobody observes the failure
StaleWhileRevalidateOpened(task, ok) ==
  IF ok THEN [task EXCEPT !.pc = "done", !.put = "pending"]
        ELSE [task EXCEPT !.pc = "done"]

StaleWhileRevalidateMatch(t) ==
  /\ tasks[t].pc = "swr_match"
  /\ tasks' = [tasks EXCEPT ![t] =
       StaleWhileRevalidateMatched(@, CachesMatch(@.request),
                                   NamedEntry(@.cacheName, @.request))]
  /\ UNCHANGED <<script, phase, cacheNames, stores, lastWriter>>

StaleWhileRevalidateFetch(t) ==
  /\ tasks[t].pc = "swr_fetch"
  /\ \E outcome \in NetworkOutcomes :
       tasks' = [tasks EXCEPT ![t] = StaleWhileRevalidateFetched(@, outcome)]
  /\ UNCHANGED <<script, phase, cacheNames, stores, lastWriter>>

StaleWhileRevalidateOpen(t) ==
  /\ tasks[t].pc = "swr_open"
  /\ \E ok \in BOOLEAN :
       /\ tasks' = [tasks EXCEPT ![t] = StaleWhileRevalidateOpened(@, ok)]
       /\ cacheNames' = IF ok THEN Opened(cacheNames, tasks[t].cacheName)
                              ELSE cacheNames
  /\ UNCHANGED <<script, phase, stores, lastWriter>>

-----------------------------------------------------------------------------
(* handleShareTarget, part_000 lines 448-463 *)

HandleShareTarget(t) ==
  /\ tasks[t].pc = "st_formData"
  /\ \E ok \in BOOLEAN :
       tasks' = [tasks EXCEPT ![t].pc = "done",
                   ![t].result = IF ok THEN Redirect(<<"/", "?shared=true">>)
                                       ELSE Redirect(<<"/">>)]
  /\ UNCHANGED <<script, phase, cacheNames, stores, lastWriter>>

-----------------------------------------------------------------------------
(* the fetch listener of part_000 lines 490-500 *)

LegacyMatched(task, cachedResponse) ==
  IF cachedResponse # Absent
    THEN [task EXCEPT !.pc = "done", !.cachedResponse = cachedResponse,
                      !.result = cachedResponse]
    ELSE [task EXCEPT !.pc = "lg_fetch", !.fetches = @ + 1]

LegacyFetched(task, outcome) ==
  IF outcome = NetworkError
    THEN [task EXCEPT !.pc = "done", !.error = "network",
                      !.result = Rejected("network")]
    ELSE [task EXCEPT !.pc = "done", !.networkResponse = outcome,
                      !.result = outcome]

LegacyMatch(t) ==
  /\ tasks[t].pc = "lg_match"
  /\ tasks' = [tasks EXCEPT ![t] = LegacyMatched(@, CachesMatch(@.request))]
  /\ UNCHANGED <<script, phase, cacheNames, stores, lastWriter>>

LegacyFetch(t) ==
  /\ tasks[t].pc = "lg_fetch"
  /\ \E outcome \in NetworkOutcomes :
       tasks' = [tasks EXCEPT ![t] = LegacyFetched(@, outcome)]
  /\ UNCHANGED <<script, phase, cacheNames, stores, lastWriter>>

-----------------------------------------------------------------------------
(* the fetch listener of sw.js, lines 79-101 *)

\* caches.match(BASE_URL + "index.html")
IndexRequest ==
  Req("GET", HTTPS, SELF_HOSTNAME, BASE_URL \o <<"index", ".html">>, "", NoHeader)

\* PagesCaught that answers with the offline page or the 503
PagesCaught_Fallback(task) ==
  [task EXCEPT !.pc = "done", !.result = CacheFirstFallback(task.request)]

\* the catch callback
PagesCaught(task) ==
  IF task.request.accept = NoHeader
    THEN [task EXCEPT !.pc = "done", !.result = Rejected("type")]
  ELSE IF Includes(task.request.accept, "text/html")
    THEN [task EXCEPT !.pc = "pg_index"]
  ELSE [task EXCEPT !.pc = "done", !.result = Undefined]

PagesMatched(task, cachedResponse, named) ==
  IF cachedResponse # Absent
    THEN [task EXCEPT !.pc = "done", !.cachedResponse = cachedResponse,
                      !.seen = named, !.result = cachedResponse]
    ELSE [task EXCEPT !.pc = "pg_fetch", !.seen = named, !.fetches = @ + 1]

PagesFetched(task, outcome) ==
  IF outcome = NetworkError
    THEN PagesCaught([task EXCEPT !.error = "network"])
    ELSE [task EXCEPT !.pc = "pg_open", !.networkResponse = outcome]

PagesOpened(task, ok) ==
  IF ok
    THEN [task EXCEPT !.pc = "done", !.put = "pending",
                      !.result = task.networkResponse]
    ELSE PagesCaught([task EXCEPT !.error = "store"])

PagesIndexMatched(task, cachedResponse) ==
  [task EXCEPT !.pc = "done", !.cachedResponse = cachedResponse,
               !.result = IF cachedResponse # Absent THEN cachedResponse
                                                     ELSE Undefined]

PagesMatch(t) ==
  /\ tasks[t].pc = "pg_match"
  /\ tasks' = [tasks EXCEPT ![t] =
       PagesMatched(@, CachesMatch(@.request), NamedEntry(@.cacheName, @.request))]
  /\ UNCHANGED <<script, phase, cacheNames, stores, lastWriter>>

PagesFetch(t) ==
  /\ tasks[t].pc = "pg_fetch"
  /\ \E outcome \in NetworkOutcomes :
       tasks' = [tasks EXCEPT ![t] = PagesFetched(@, outcome)]
  /\ UNCHANGED <<script, phase, cacheNames, stores, lastWriter>>

PagesOpen(t) ==
  /\ tasks[t].pc = "pg_open"
  /\ \E ok \in BOOLEAN :
       /\ tasks' = [tasks EXCEPT ![t] = PagesOpened(@, ok)]
       /\ cacheNames' = IF ok THEN Opened(cacheNames, tasks[t].cacheName)
                              ELSE cacheNames
  /\ UNCHANGED <<script, phase, stores, lastWriter>>

PagesIndexMatch(t) ==
  /\ tasks[t].pc = "pg_index"
  /\ tasks' = [tasks EXCEPT ![t] = PagesIndexMatched(@, CachesMatch(IndexRequest))]
  /\ UNCHANGED <<script, phase, cacheNames, stores, lastWriter>>

-----------------------------------------------------------------------------
(* Specifications *)

Lifecycle == Install \/ LegacyInstall \/ PagesInstall \/ Activate

Step(t) ==
  \/ CacheFirstMatch(t) \/ CacheFirstFetch(t) \/ CacheFirstOpen(t)
  \/ NetworkFirstFetch(t) \/ NetworkFirstOpen(t) \/ NetworkFirstMatch(t)
  \/ StaleWhileRevalidateMatch(t) \/ StaleWhileRevalidateFetch(t)
  \/ StaleWhileRevalidateOpen(t)
  \/ HandleShareTarget(t)
  \/ LegacyMatch(t) \/ LegacyFetch(t)
  \/ PagesMatch(t) \/ PagesFetch(t) \/ PagesOpen(t) \/ PagesIndexMatch(t)
  \/ CachePut(t)

Next ==
  \/ Lifecycle
  \/ \E t \in Slots, request \in Requests : FetchEvent(t, request)
  \/ \E t \in Slots : Step(t)

\* The workers handling the events of Requests, every interleaving of the
\* tasks' suspension points.
Spec == Init /\ [][Next]_vars

\* One fetch event of any request of AllRequests reaching the listeners.
NextDispatch == \E request \in AllRequests : FetchEvent(1, request)

\* An activated worker whose installation added every precached file.
InitDispatch ==
  /\ script \in Scripts
  /\ phase = "activated"
  /\ cacheNames = ( CASE script = "main" -> <<STATIC_CACHE, DYNAMIC_CACHE>>
                      [] script = "legacy" -> <<LEGACY_CACHE_NAME>>
                      [] script = "pages" -> <<PAGES_STATIC_CACHE>> )
  /\ \E body \in Bodies :
       stores = [n \in StoreNames |->
                   IF \E i \in 1..Len(cacheNames) : cacheNames[i] = n
                     THEN StoreAddAll(EmptyStore, Precached(n), body)
                     ELSE EmptyStore]
  /\ lastWriter = [n \in StoreNames |->
                     WrittenBy(NoWriter, DOMAIN stores[n], 0)]
  /\ tasks = [t \in Slots |-> IdleTask]

SpecDispatch == InitDispatch /\ [][NextDispatch]_vars

-----------------------------------------------------------------------------
(* Properties *)

Dispatched == { t \in Slots : tasks[t].pc # "idle" }

Strategies ==
  {"cacheFirstStrategy", "networkFirstStrategy", "staleWhileRevalidateStrategy"}

UsesHttpScheme(request) == request.scheme \in {HTTP, HTTPS}

\* a request the claims call not handled: not GET, or not http(s)
NotGetOrNotHttp(request) ==
  request.method # "GET" \/ ~UsesHttpScheme(request)

IsShareTargetPost(request) ==
  request.method = "POST" /\ request.pathname = <<"/", "share-target">>

\* C1 as stated: for every request that is not GET, or not http(s), no
\* strategy is executed and no fetch listener calls respondWith.
C1_NoListenerResponds ==
  \A t \in Dispatched :
    NotGetOrNotHttp(tasks[t].request) =>
      /\ tasks[t].pc = "declined"
      /\ tasks[t].handler = "none"

\* C1 amended: for every request that is not GET, or not http(s), no caching
\* strategy is executed and the strategy-selecting listeners (part_000 line
\* 82, sw.js line 64) do not call respondWith.  respondWith is still called
\* for such a request by the share-target listener, exactly for a POST to
\* /share-target, and by the listener of part_000 line 490, for every request.
C1_StrategyListenersDecline ==
  \A t \in Dispatched :
    NotGetOrNotHttp(tasks[t].request) =>
      /\ tasks[t].handler \notin Strategies \cup {"pagesFetch"}
      /\ tasks[t].cacheName = "none"
      /\ script = "pages" => tasks[t].pc = "declined"
      /\ script = "main" =>
           IF IsShareTargetPost(tasks[t].request)
             THEN tasks[t].handler = "handleShareTarget"
             ELSE tasks[t].pc = "declined"
      /\ script = "legacy" => tasks[t].handler = "legacyFetch"

\* C1 witness: a POST for a static asset, which is no share, has reached the
\* main worker's listeners and was declined
C1_Witness ==
  /\ script = "main"
  /\ tasks[1].pc = "declined"
  /\ tasks[1].request.method = "POST"
  /\ tasks[1].request.scheme = HTTPS
  /\ isStaticAsset(tasks[1].request)

\* the strategy and store the fixed rule order gives a request
IsExpectedStrategy(task) ==
  IF isStaticAsset(task.request)
    THEN task.handler = "cacheFirstStrategy" /\ task.cacheName = STATIC_CACHE
  ELSE IF isFont(task.request)
    THEN task.handler = "cacheFirstStrategy"
  ELSE IF isAPIRequest(task.request)
    THEN task.handler = "networkFirstStrategy"
  ELSE task.handler = "staleWhileRevalidateStrategy"

\* C2: in the worker of part_000 every GET http(s) request starts exactly one
\* strategy, the first that matches in the order static asset (cache-first on
\* STATIC_CACHE), font (cache-first), API (network-first), otherwise
\* stale-while-revalidate.
C2_FirstMatchSelectsStrategy ==
  \A t \in Dispatched :
    (script = "main" /\ ~NotGetOrNotHttp(tasks[t].request)) =>
      /\ Cardinality(Responders(script, tasks[t].request)) = 1
      /\ tasks[t].handler \in Strategies
      /\ tasks[t].pc = EntryPoint(tasks[t].handler)
      /\ IsExpectedStrategy(tasks[t])

\* C2 witness: a request that matches the static, the font and the API rule
\* at once was given to cache-first on the static store
C2_Witness ==
  /\ script = "main"
  /\ tasks[1].pc = "cf_match"
  /\ tasks[1].cacheName = STATIC_CACHE
  /\ isStaticAsset(tasks[1].request)
  /\ isFont(tasks[1].request)
  /\ isAPIRequest(tasks[1].request)

IsCrossOriginStylesheet(request) ==
  /\ request.method = "GET"
  /\ UsesHttpScheme(request)
  /\ request.hostname # SELF_HOSTNAME
  /\ EndsWith(request.pathname, <<".css">>)

\* C3 as stated: a GET for a ".css" path on another host is handled by
\* network-first (ApiRequest), not by cache-first (StaticAsset).
C3_CrossOriginCssIsApi ==
  \A t \in Dispatched :
    (script = "main" /\ IsCrossOriginStylesheet(tasks[t].request)) =>
      tasks[t].handler = "networkFirstStrategy"

\* C3 amended: a GET for a ".css" path on another host is classified
\* StaticAsset and handled by cache-first on STATIC_CACHE, not by
\* network-first: the extension rule is tried before the cross-origin rule.
C3_CrossOriginCssIsStatic ==
  \A t \in Dispatched :
    (script = "main" /\ IsCrossOriginStylesheet(tasks[t].request)) =>
      /\ tasks[t].handler = "cacheFirstStrategy"
      /\ tasks[t].cacheName = STATIC_CACHE

\* C3 witness: such a request, from a host that is no font host, was given
\* to cache-first
C3_Witness ==
  /\ script = "main"
  /\ IsCrossOriginStylesheet(tasks[1].request)
  /\ tasks[1].request.hostname = "cdnjs.cloudflare.com"
  /\ tasks[1].pc = "cf_match"

TasksOf(handler) == { t \in Dispatched : tasks[t].handler = handler }

\* the entry now held by the store a task's strategy was given
EntryNow(t) == NamedEntry(tasks[t].cacheName, tasks[t].request)

\* the task's put was applied and no later put replaced its entry
IsLastWriter(t) ==
  /\ tasks[t].put = "applied"
  /\ Key(tasks[t].request) \in DOMAIN lastWriter[tasks[t].cacheName]
  /\ lastWriter[tasks[t].cacheName][Key(tasks[t].request)] = t

GotNetwork200(t) ==
  /\ tasks[t].networkResponse.src = "network"
  /\ tasks[t].networkResponse.status = 200

\* C4: a cache-first request whose lookup runs while its store holds an
\* entry for the key returns that entry and fetches nothing; a cache-first
\* request that starts when the store already holds an entry for the key
\* never fetches.
C4_CacheFirstHitNoFetch ==
  \A t \in TasksOf("cacheFirstStrategy") :
    /\ (tasks[t].pc # "cf_match" /\ tasks[t].seen # Absent) =>
         /\ tasks[t].pc = "done"
         /\ tasks[t].result = tasks[t].seen
         /\ tasks[t].fetches = 0
    /\ tasks[t].atStart # Absent => tasks[t].fetches = 0

\* C4 witness: the first request missed, fetched and populated the store;
\* the second, identical request started afterwards and was served the
\* stored response without a fetch
C4_Witness ==
  /\ script = "main"
  /\ tasks[1].handler = "cacheFirstStrategy"
  /\ tasks[1].fetches = 1
  /\ IsLastWriter(1)
  /\ tasks[2].request = tasks[1].request
  /\ tasks[2].atStart = tasks[1].networkResponse
  /\ tasks[2].pc = "done"
  /\ tasks[2].result = tasks[1].networkResponse
  /\ tasks[2].fetches = 0

\* C5 as stated: a cache-first request that found no entry and whose fetch
\* returned 200 with body B returns that response, and once its put has
\* settled with no later writer the named store holds it.
C5_CacheFirstMissReturnsFetched ==
  \A t \in TasksOf("cacheFirstStrategy") :
    (tasks[t].pc = "done" /\ tasks[t].cachedResponse = Absent /\ GotNetwork200(t)) =>
      /\ tasks[t].result = tasks[t].networkResponse
      /\ IsLastWriter(t) => EntryNow(t) = tasks[t].networkResponse

\* C6: a cache-first request that missed and whose fetch failed resolves
\* with the offline page (status 200, "You're Offline") when its destination
\* is "document" and with a 503 otherwise, and starts no write.
C6_CacheFirstOfflineFallback ==
  \A t \in TasksOf("cacheFirstStrategy") :
    tasks[t].error = "network" =>
      /\ tasks[t].pc = "done"
      /\ tasks[t].fetches = 1
      /\ tasks[t].put = "none"
      /\ tasks[t].result.src \notin {"rejected", "pending", "network"}
      /\ IF tasks[t].request.destination = "document"
           THEN /\ tasks[t].result.src = "createOfflinePage"
                /\ tasks[t].result.status = 200
                /\ Includes(tasks[t].result.body, "You're Offline")
           ELSE tasks[t].result.status = 503

\* C6 witness: a failed document request got the offline page and a failed
\* stylesheet request got the 503
C6_Witness ==
  /\ tasks[1].handler = "cacheFirstStrategy"
  /\ tasks[1].request.destination = "document"
  /\ tasks[1].error = "network"
  /\ tasks[1].result = createOfflinePage
  /\ tasks[2].handler = "cacheFirstStrategy"
  /\ tasks[2].request.destination = "style"
  /\ tasks[2].error = "network"
  /\ tasks[2].result.status = 503

\* C7 as stated: a network-first request whose fetch returned 200 with
\* response F returns F, and once its put has settled with no later writer
\* the named store holds F in place of any older entry.
C7_NetworkFirstReturnsFetched ==
  \A t \in TasksOf("networkFirstStrategy") :
    (tasks[t].pc = "done" /\ GotNetwork200(t)) =>
      /\ tasks[t].result = tasks[t].networkResponse
      /\ IsLastWriter(t) => EntryNow(t) = tasks[t].networkResponse

\* C8: a network-first request whose fetch failed while the store holds an
\* entry E for the key returns exactly E, has made one fetch attempt and
\* starts no write.
C8_NetworkFirstFallsBackToCache ==
  \A t \in TasksOf("networkFirstStrategy") :
    (tasks[t].pc = "done" /\ tasks[t].error = "network" /\ tasks[t].seen # Absent) =>
      /\ tasks[t].result = tasks[t].seen
      /\ tasks[t].fetches = 1
      /\ tasks[t].put = "none"
      /\ tasks[t].networkResponse = Absent

\* C8 witness: the first request stored its 200 response, the second request
\* for the same key lost the network and returned the stored response
C8_Witness ==
  /\ tasks[1].handler = "networkFirstStrategy"
  /\ IsLastWriter(1)
  /\ tasks[2].handler = "networkFirstStrategy"
  /\ tasks[2].request = tasks[1].request
  /\ tasks[2].pc = "done"
  /\ tasks[2].error = "network"
  /\ tasks[2].result = tasks[1].networkResponse
  /\ EntryNow(2) = tasks[1].networkResponse

\* C9: a network-first request whose fetch failed and whose lookup found no
\* entry rejects with the network error; it never resolves with a
\* synthesized response.
C9_NetworkFirstRejects ==
  \A t \in TasksOf("networkFirstStrategy") :
    (tasks[t].pc = "done" /\ tasks[t].error = "network"
       /\ tasks[t].cachedResponse = Absent) =>
      tasks[t].result = Rejected("network")

\* C9 witness: a document request handled network-first was rejected
C9_Witness ==
  \E t \in TasksOf("networkFirstStrategy") :
    /\ tasks[t].pc = "done"
    /\ tasks[t].error = "network"
    /\ tasks[t].seen = Absent
    /\ tasks[t].result.src = "rejected"

\* C10: a stale-while-revalidate request whose lookup found entry E is
\* answered with E as soon as the lookup settles, before the fetch does; and
\* when its fetch returned 200 with F and its put was applied with no later
\* writer, the store holds F.
C10_StaleWhileRevalidateHit ==
  \A t \in TasksOf("staleWhileRevalidateStrategy") :
    (tasks[t].pc # "swr_match" /\ tasks[t].seen # Absent) =>
      /\ tasks[t].result = tasks[t].seen
      /\ tasks[t].fetches = 1
      /\ IsLastWriter(t) => /\ GotNetwork200(t)
                            /\ EntryNow(t) = tasks[t].networkResponse

\* C10 witness: the request was answered with the stored E while its fetch
\* brought a different F, and F has replaced E in the store
C10_Witness ==
  \E t \in TasksOf("staleWhileRevalidateStrategy") :
    /\ tasks[t].seen # Absent
    /\ tasks[t].result = tasks[t].seen
    /\ GotNetwork200(t)
    /\ tasks[t].networkResponse # tasks[t].seen
    /\ IsLastWriter(t)
    /\ EntryNow(t) = tasks[t].networkResponse

\* C11: a stale-while-revalidate request whose lookup found no entry and
\* whose fetch failed resolves with the offline page (it does not reject),
\* whatever its destination, and starts no write.
C11_StaleWhileRevalidateOffline ==
  \A t \in TasksOf("staleWhileRevalidateStrategy") :
    (tasks[t].error = "network" /\ tasks[t].cachedResponse = Absent) =>
      /\ tasks[t].pc = "done"
      /\ tasks[t].result = createOfflinePage
      /\ tasks[t].result.status = 200
      /\ Includes(tasks[t].result.body, "You're Offline")
      /\ tasks[t].fetches = 1
      /\ tasks[t].put = "none"
      /\ tasks[t].networkResponse = Absent

\* C11 witness: a request that is not for a document missed, lost the
\* network and was answered with the offline page
C11_Witness ==
  \E t \in TasksOf("staleWhileRevalidateStrategy") :
    /\ tasks[t].request.destination # "document"
    /\ tasks[t].seen = Absent
    /\ tasks[t].cachedResponse = Absent
    /\ tasks[t].error = "network"
    /\ tasks[t].result = createOfflinePage

\* the strategy tasks whose put wrote the entry a store holds for a key
StrategyWriters(name, key) ==
  { t \in Dispatched : /\ tasks[t].handler \in Strategies
                       /\ tasks[t].cacheName = name
                       /\ Key(tasks[t].request) = key
                       /\ Lookup(lastWriter[name], key) = t }

\* C12: every entry a store holds that was written by one of the three
\* strategies is a response of a network fetch with status 200; a strategy
\* never starts a put of a response with another status, of the offline page
\* or of the synthesized 503.
C12_StrategiesWriteOnly200 ==
  /\ \A name \in StoreNames : \A key \in DOMAIN stores[name] :
       StrategyWriters(name, key) # {} =>
         /\ stores[name][key].src = "network"
         /\ stores[name][key].status = 200
  /\ \A t \in Dispatched :
       (tasks[t].handler \in Strategies /\ tasks[t].put # "none") =>
         /\ GotNetwork200(t)
         /\ tasks[t].error = "none"

\* C12 witness: a cache-first request was answered a 404 and nothing was
\* stored for its key, while a stale-while-revalidate request has written its
\* 200 response
C12_Witness ==
  /\ tasks[1].handler = "cacheFirstStrategy"
  /\ tasks[1].pc = "done"
  /\ tasks[1].result.status = 404
  /\ EntryNow(1) = Absent
  /\ tasks[2].handler = "staleWhileRevalidateStrategy"
  /\ IsLastWriter(2)
  /\ EntryNow(2).status = 200

\* the task's strategy lookup has settled
LookupSettled(t) ==
  CASE tasks[t].handler = "cacheFirstStrategy" -> tasks[t].pc # "cf_match"
    [] tasks[t].handler = "staleWhileRevalidateStrategy" ->
         tasks[t].pc # "swr_match"
    [] tasks[t].handler = "networkFirstStrategy" ->
         tasks[t].pc = "done" /\ tasks[t].error # "none"
    [] OTHER -> FALSE

\* C13 as stated: a strategy's lookup consults only the store named by its
\* argument: when that store held no entry for the key, no entry is returned
\* as a cache-first hit, a network-first fallback or a stale-while-revalidate
\* hit, and cache-first goes to the network.
C13_LookupInNamedStoreOnly ==
  \A t \in Dispatched :
    (tasks[t].handler \in Strategies /\ LookupSettled(t)
       /\ tasks[t].seen = Absent) =>
      /\ tasks[t].cachedResponse = Absent
      /\ tasks[t].handler = "cacheFirstStrategy" => tasks[t].fetches = 1

\* the positions, in creation order, of the existing stores that hold an
\* entry for the request's key
Holders(request) ==
  { i \in 1..Len(cacheNames) : Key(request) \in DOMAIN stores[cacheNames[i]] }

\* C13 amended: a strategy's lookup consults every existing store, in the
\* order of their creation, whatever store its argument names.  The step in
\* which the lookup settles misses exactly when no store holds the key (and
\* then cache-first issues its fetch); otherwise it takes the entry of the
\* oldest store that holds the key, which is returned as the cache-first
\* hit, the network-first fallback or the stale-while-revalidate hit, and
\* cache-first issues no fetch.
C13_LookupConsultsEveryStore ==
  [][\A t \in Slots :
       (tasks[t].pc \in {"cf_match", "nf_match", "swr_match"}
          /\ tasks'[t].pc # tasks[t].pc) =>
         LET holders == Holders(tasks[t].request)
             oldest == CHOOSE i \in holders : \A j \in holders : i <= j
         IN  IF holders = {}
               THEN /\ tasks'[t].cachedResponse = Absent
                    /\ tasks[t].pc = "cf_match" =>
                         /\ tasks'[t].pc = "cf_fetch"
                         /\ tasks'[t].fetches = 1
               ELSE /\ tasks'[t].cachedResponse =
                         stores[cacheNames[oldest]][Key(tasks[t].request)]
                    /\ tasks'[t].result = tasks'[t].cachedResponse
                    /\ tasks[t].pc = "cf_match" =>
                         /\ tasks'[t].pc = "done"
                         /\ tasks'[t].fetches = 0]_vars

\* C13 witness: a font stylesheet request, cache-first on the dynamic store,
\* was answered with the entry the installation put into the static store,
\* the dynamic store holding nothing for the key, and made no fetch
C13_Witness ==
  \E t \in TasksOf("cacheFirstStrategy") :
    /\ tasks[t].cacheName = DYNAMIC_CACHE
    /\ tasks[t].pc = "done"
    /\ tasks[t].seen = Absent
    /\ EntryNow(t) = Absent
    /\ tasks[t].result = NamedEntry(STATIC_CACHE, tasks[t].request)
    /\ tasks[t].result # Absent
    /\ tasks[t].fetches = 0

\* the request's class is Font: the font rule matches and the static-asset
\* rule, tried before it, does not
IsFontClass(request) == ~isStaticAsset(request) /\ isFont(request)

\* the request's class is ApiRequest or Other
IsApiOrOtherClass(request) == ~isStaticAsset(request) /\ ~isFont(request)

\* the strategy tasks that have started a put
Writers == { t \in Dispatched : /\ tasks[t].handler \in Strategies
                                /\ tasks[t].put # "none" }

\* C14 as stated: a Font request is never written to the store that an
\* ApiRequest or Other request is written to.
C14_FontStoreIsSeparate ==
  \A t \in Writers, u \in Writers :
    (IsFontClass(tasks[t].request) /\ IsApiOrOtherClass(tasks[u].request)) =>
      tasks[t].cacheName # tasks[u].cacheName

\* C14 amended: Font requests are written to DYNAMIC_CACHE, the same store
\* that ApiRequest and Other requests are written to; only StaticAsset
\* requests are written to another store, STATIC_CACHE.
C14_FontsShareDynamicStore ==
  \A t \in Writers :
    /\ tasks[t].cacheName = IF isStaticAsset(tasks[t].request)
                              THEN STATIC_CACHE ELSE DYNAMIC_CACHE
    /\ STATIC_CACHE # DYNAMIC_CACHE
    /\ (tasks[t].put = "applied" /\ Exists(tasks[t].cacheName)) =>
         Key(tasks[t].request) \in DOMAIN stores[tasks[t].cacheName]

\* C14 witness: a font request and an API request have both written their
\* responses, and the dynamic store holds both entries
C14_Witness ==
  /\ IsFontClass(tasks[1].request)
  /\ tasks[1].put = "applied"
  /\ isAPIRequest(tasks[2].request)
  /\ IsApiOrOtherClass(tasks[2].request)
  /\ tasks[2].put = "applied"
  /\ Key(tasks[1].request) \in DOMAIN stores[DYNAMIC_CACHE]
  /\ Key(tasks[2].request) \in DOMAIN stores[DYNAMIC_CACHE]
  /\ Key(tasks[1].request) \notin DOMAIN stores[STATIC_CACHE]

\* the task's network fetch succeeded
FetchSucceeded(t) == tasks[t].networkResponse.src = "network"

\* C15 as stated: whatever happens on the write-through path, opening the
\* store or putting the entry, a strategy request whose network fetch
\* succeeded is answered with that network response (stale-while-revalidate:
\* unless its lookup had hit, when it was answered before the fetch), never
\* with a fallback, a cached copy found afterwards or a rejection.
C15_WriteFailureKeepsResponse ==
  \A t \in Dispatched :
    (tasks[t].handler \in Strategies /\ tasks[t].pc = "done"
       /\ FetchSucceeded(t)) =>
      IF tasks[t].handler = "staleWhileRevalidateStrategy"
           /\ tasks[t].cachedResponse # Absent
        THEN tasks[t].result = tasks[t].cachedResponse
        ELSE tasks[t].result = tasks[t].networkResponse

ResponseHandlers == Strategies \cup {"pagesFetch", "legacyFetch"}

\* the request could be satisfied neither from the network nor from a cache:
\* its fetch failed and its lookup had found nothing (cache-first and the
\* listeners of sw.js and part_000 line 490 fetch only after a miss)
Unrecoverable(t) ==
  /\ tasks[t].handler \in ResponseHandlers
  /\ tasks[t].request.method = "GET"
  /\ tasks[t].pc = "done"
  /\ tasks[t].error = "network"
  /\ tasks[t].handler \in {"networkFirstStrategy", "staleWhileRevalidateStrategy"}
       => tasks[t].cachedResponse = Absent

C17_PagesWritesOnly200 ==
  \A t \in TasksOf("pagesFetch") :
    /\ tasks[t].put # "none" => GotNetwork200(t)
    /\ (tasks[t].pc = "done" /\ FetchSucceeded(t)
          /\ tasks[t].networkResponse.status # 200) =>
         /\ tasks[t].result = tasks[t].networkResponse
         /\ tasks[t].put = "none"

\* C18: a strategy request whose fetch completed with a status other than
\* 200 is finished, is answered with exactly that response (unless its
\* stale-while-revalidate lookup had already chosen a cached copy) and
\* starts no write, so that the store never holds the response; the 503, the
\* offline page and a cached entry are not substituted for it.
C18_Non200ReturnedNotStored ==
  \A t \in Dispatched :
    (tasks[t].handler \in Strategies /\ FetchSucceeded(t)
       /\ tasks[t].networkResponse.status # 200) =>
      /\ tasks[t].pc = "done"
      /\ tasks[t].error = "none"
      /\ tasks[t].put = "none"
      /\ EntryNow(t) # tasks[t].networkResponse
      /\ tasks[t].result =
           IF tasks[t].handler = "staleWhileRevalidateStrategy"
                /\ tasks[t].cachedResponse # Absent
             THEN tasks[t].cachedResponse
             ELSE tasks[t].networkResponse

\* C18 witness: a network-first request stored its 200 response; a second
\* one for the same key was answered the 404 its fetch brought, while the
\* store still holds the entry of the first
C18_Witness ==
  /\ tasks[1].handler = "networkFirstStrategy"
  /\ IsLastWriter(1)
  /\ tasks[2].handler = "networkFirstStrategy"
  /\ tasks[2].request = tasks[1].request
  /\ tasks[2].pc = "done"
  /\ tasks[2].result.src = "network"
  /\ tasks[2].result.status = 404
  /\ EntryNow(2) = tasks[1].networkResponse
  /\ EntryNow(2).status = 200

\* C19 as stated: within one request, cache-first issues its fetch only
\* after its lookup has settled with a miss; network-first issues its lookup
\* only after its fetch has settled, and only when the fetch failed;
\* stale-while-revalidate issues its fetch when its lookup has settled, hit
\* or miss, and not before.
C19_LookupAndFetchOrder ==
  \A t \in Dispatched :
    /\ tasks[t].handler = "cacheFirstStrategy" =>
         /\ tasks[t].pc = "cf_match" => tasks[t].fetches = 0
         /\ tasks[t].fetches > 0 =>
              tasks[t].cachedResponse = Absent /\ tasks[t].fetches = 1
    /\ tasks[t].handler = "networkFirstStrategy" =>
         /\ tasks[t].pc \in {"nf_fetch", "nf_open"} =>
              tasks[t].seen = Absent /\ tasks[t].cachedResponse = Absent
         /\ tasks[t].pc = "nf_match" =>
              /\ ~FetchSucceeded(t)
              /\ tasks[t].error = "network"
         /\ tasks[t].cachedResponse # Absent => ~FetchSucceeded(t)
    /\ tasks[t].handler = "staleWhileRevalidateStrategy" =>
         /\ tasks[t].pc = "swr_match" => tasks[t].fetches = 0
         /\ tasks[t].pc # "swr_match" => tasks[t].fetches = 1

\* the strategy tasks handling the key of task t, t included
SameKey(t) ==
  { u \in Dispatched : /\ tasks[u].handler \in Strategies
                       /\ Key(tasks[u].request) = Key(tasks[t].request) }

\* every task of the set is finished, its put settled, and each fetch made
\* returned a 200 response
AllSettledWith200(group) ==
  \A u \in group :
    /\ tasks[u].pc = "done"
    /\ tasks[u].put # "pending"
    /\ tasks[u].error # "network"
    /\ FetchSucceeded(u) => tasks[u].networkResponse.status = 200

\* C20 as stated: when two or more requests for one key were handled, their
\* steps interleaved in any way, and every fetch returned 200, then once all
\* of them and their puts have settled the store holds for the key exactly
\* the response of the task whose put was applied last, an entry is there
\* whenever a put was applied (for as long as the store itself exists), and
\* each caller was answered with the response of its own lookup or of its
\* own fetch.
C20_LastWriterWins ==
  \A t \in Dispatched :
    (tasks[t].handler \in Strategies /\ Cardinality(SameKey(t)) >= 2
       /\ AllSettledWith200(SameKey(t))) =>
      /\ \A u \in SameKey(t) :
           /\ (tasks[u].put = "applied" /\ Exists(tasks[u].cacheName)) =>
                EntryNow(u) # Absent
           /\ IsLastWriter(u) => EntryNow(u) = tasks[u].networkResponse
           /\ \/ tasks[u].result = tasks[u].cachedResponse
                   /\ tasks[u].cachedResponse # Absent
              \/ tasks[u].result = tasks[u].networkResponse
                   /\ FetchSucceeded(u)
      /\ \A name \in StoreNames :
           Lookup(stores[name], Key(tasks[t].request)) # Absent =>
             \/ Lookup(lastWriter[name], Key(tasks[t].request)) = 0
             \/ \E u \in SameKey(t) : /\ tasks[u].cacheName = name
                                      /\ IsLastWriter(u)

\* a store of that name is in the list of existing stores
InNames(names, name) == \E i \in 1..Len(names) : names[i] = name

\* the step is the activation of the worker
IsActivation == phase = "installed" /\ phase' = "activated"

\* the step removes the store of that name, or an entry of it
Removes(name) ==
  \/ InNames(cacheNames, name) /\ ~InNames(cacheNames', name)
  \/ \E key \in DOMAIN stores[name] : key \notin DOMAIN stores'[name]

\* the step adds the entry of that store and key, or replaces its response
Writes(name, key) ==
  /\ key \in DOMAIN stores'[name]
  /\ key \in DOMAIN stores[name] => stores'[name][key] # stores[name][key]

\* what a step may do to the stores: removing a store or an entry is the
\* activation's deletion of a store that is not kept; the activation leaves
\* the kept stores as they were; a step of a request's handling writes at
\* most the entry of its own key in the store it was given
StoresFrame ==
  /\ \A name \in StoreNames :
       Removes(name) =>
         /\ IsActivation
         /\ name \notin KeptNames(script)
         /\ ~InNames(cacheNames', name)
         /\ stores'[name] = EmptyStore
  /\ IsActivation =>
       \A name \in StoreNames :
         IF name \in KeptNames(script)
           THEN /\ stores'[name] = stores[name]
                /\ InNames(cacheNames', name) <=> InNames(cacheNames, name)
           ELSE /\ ~InNames(cacheNames', name)
                /\ stores'[name] = EmptyStore
  /\ phase' = phase =>
       \A name \in StoreNames : \A key \in DOMAIN stores'[name] :
         Writes(name, key) =>
           \E t \in Slots : /\ tasks[t].put = "pending"
                            /\ tasks'[t].put = "applied"
                            /\ tasks[t].cacheName = name
                            /\ Key(tasks[t].request) = key

\* C21: entries are removed only by the deletion of whole stores at
\* activation.  A step that removes a store or an entry is the activation,
\* and the store is none of the three the activate listener keeps; the
\* activation deletes every existing store of another name and leaves the
\* kept stores and all their entries as they were, whatever requests of the
\* earlier worker are still in flight; a step of a request's handling writes
\* at most the entry of its own request's key in the store it was given.
C21_EntriesRemovedOnlyByActivation == [][StoresFrame]_vars

\* C21 witness: the worker of sw.js was activated while a put of a request
\* handled by the worker before it was in flight.  The stores of the earlier
\* version are gone, the put has settled without an entry anyone can reach,
\* the precached store is whole, and a request of the new worker has written
\* its entry into the dynamic store.
C21_Witness ==
  /\ script = "pages"
  /\ phase = "activated"
  /\ ~Exists(STATIC_CACHE)
  /\ ~Exists(DYNAMIC_CACHE)
  /\ tasks[1].handler \in Strategies
  /\ tasks[1].put = "orphaned"
  /\ NamedEntry(tasks[1].cacheName, tasks[1].request) = Absent
  /\ DOMAIN stores[PAGES_STATIC_CACHE] = PAGES_STATIC_FILES
  /\ tasks[2].handler = "pagesFetch"
  /\ IsLastWriter(2)

=============================================================================
